---- MODULE Spec2Model ----
(***************************************************************************)
(* Weighted First-Fit-Decreasing bin packing (src/src/main.rs).            *)
(*                                                                         *)
(* The model follows bin_packing_weighted_ffd step by step: the weight     *)
(* assertion, the descending sort by weighted score, and one step per      *)
(* iteration of the placement loop.  Two calls are made in sequence, as    *)
(* main does, so that results of two calls can be compared.                *)
(*                                                                         *)
(* Arithmetic.  f32 values are modelled exactly: a non-negative finite f32 *)
(* is the pair <<m, e>> with value m / 2^e, where m = 0 or                 *)
(* 2^23 <= m < 2^24 (24-bit significand), and every operation rounds to    *)
(* nearest, ties to even, as IEEE-754 single precision does.  u32 values   *)
(* are modelled at reduced width: sums wrap modulo Modulus instead of      *)
(* 2^32; all values stay below 2^24, so `as f32` is exact in the model.    *)
(***************************************************************************)
EXTENDS Integers, Sequences, FiniteSets, TLC

\* ------------------------------------------------------------------ bounds
Modulus == 1024      \* stands for 2^32, the modulus of u32 arithmetic
MaxLen == 2          \* longest item list drawn from ItemSet
MaxExtra == 1        \* most items added to the list for the second call

\* ------------------------------------------------------------- f32 values
Pow2(k) == 2^k

\* the number of bits of n, for 0 <= n < 2^31
BitLen4(n) == IF n < 4 THEN (IF n < 2 THEN n ELSE 2) ELSE (IF n < 8 THEN 3 ELSE 4)
BitLen8(n) == IF n < 16 THEN BitLen4(n) ELSE 4 + BitLen4(n \div 16)
BitLen16(n) == IF n < 256 THEN BitLen8(n) ELSE 8 + BitLen8(n \div 256)
BitLen(n) == IF n < 65536 THEN BitLen16(n) ELSE 16 + BitLen16(n \div 65536)

F32Zero == <<0, 0>>

\* q = floor(P / 2^k), r = P mod 2^k: P / 2^k rounded to nearest, ties to even
RoundHalfEven(q, r, k) ==
    IF k = 0 THEN q
    ELSE LET half == Pow2(k - 1)
         IN IF r > half \/ (r = half /\ q % 2 = 1) THEN q + 1 ELSE q

\* the f32 with value m / 2^e, for 0 < m <= 2^24
Normalize(m, e) ==
    IF m = 16777216 THEN <<8388608, e - 1>>
    ELSE LET s == 24 - BitLen(m) IN <<m * Pow2(s), e + s>>

\* P / 2^e rounded to a 24-bit significand, for 0 <= P < 2^31
RoundF32(P, e) ==
    IF P = 0 THEN F32Zero
    ELSE LET k == IF BitLen(P) > 24 THEN BitLen(P) - 24 ELSE 0
         IN Normalize(RoundHalfEven(P \div Pow2(k), P % Pow2(k), k), e - k)

\* `n as f32` for a u32 n (exact: n < 2^24 in the model)
U32ToF32(n) == RoundF32(n, 0)

\* a >= b on f32
F32Ge(a, b) ==
    IF b[1] = 0 THEN TRUE
    ELSE IF a[1] = 0 THEN FALSE
    ELSE a[2] < b[2] \/ (a[2] = b[2] /\ a[1] >= b[1])

F32Lt(a, b) == ~F32Ge(a, b)

\* (n as f32) * w.  The 36-bit product n * w[1] is kept as hi * 2^12 + lo.
F32MulU32(n, w) ==
    IF n = 0 \/ w[1] = 0 THEN F32Zero
    ELSE LET mh == w[1] \div 4096
             ml == w[1] % 4096
             t  == n * ml
             hi == n * mh + t \div 4096
             lo == t % 4096
         IN IF hi < 4096 THEN RoundF32(hi * 4096 + lo, w[2])
            ELSE LET k == BitLen(hi) - 12
                     q == hi * Pow2(12 - k) + lo \div Pow2(k)
                     r == lo % Pow2(k)
                 IN Normalize(RoundHalfEven(q, r, k), w[2] - k)

\* a + b on f32.  The smaller operand is aligned to the larger one with three
\* guard bits and a sticky bit, then the sum is rounded once.
F32Add(a, b) ==
    IF a[1] = 0 THEN b
    ELSE IF b[1] = 0 THEN a
    ELSE LET x == IF F32Ge(a, b) THEN a ELSE b
             y == IF F32Ge(a, b) THEN b ELSE a
             d == y[2] - x[2]
             ym == y[1] * 8
             yq == IF d > 27 THEN 0 ELSE ym \div Pow2(d)
             sticky == IF d > 27 THEN 1
                       ELSE IF ym % Pow2(d) # 0 THEN 1 ELSE 0
             s2 == 2 * (x[1] * 8 + yq) + sticky
         IN RoundF32(s2, x[2] + 4)

\* (s - 1.0).abs() on f32, for s = m / 2^e with e <= 30
F32AbsSubOne(s) ==
    LET one == Pow2(s[2])
        P == IF s[1] >= one THEN s[1] - one ELSE one - s[1]
    IN IF s[1] = 0 THEN <<8388608, 23>> ELSE RoundF32(P, s[2])

\* the f32 literals of the source
Tolerance == <<8796093, 43>>   \* 1e-6
W00 == F32Zero                 \* 0.0
W02 == <<13421773, 26>>        \* 0.2
W04 == <<13421773, 25>>        \* 0.4
W05 == <<8388608, 24>>         \* 0.5
W06 == <<10066330, 24>>        \* 0.6
W08 == <<13421773, 24>>        \* 0.8
W10 == <<8388608, 23>>         \* 1.0

\* -------------------------------------------------------------- inputs
Item(c, d) == <<c, d>>

ItemSet == {Item(0, 1), Item(2, 3), Item(3, 2), Item(9, 0)}

RECURSIVE Lists(_, _)
Lists(S, n) ==
    IF n = 0 THEN {<<>>}
    ELSE Lists(S, n - 1)
         \cup {Append(l, x) : l \in {t \in Lists(S, n - 1) : Len(t) = n - 1}, x \in S}

\* the item list and capacities of main
ExampleItems == <<Item(4, 100), Item(2, 50), Item(6, 150), Item(1, 30),
                  Item(3, 80), Item(5, 120), Item(2, 60), Item(4, 90)>>
ExampleCore == 10
ExampleDisk == 200

\* a list whose packing needs fewer bins once Item(3, 2) is added to it
AnomalyItems == <<Item(0, 1), Item(0, 5), Item(2, 3), Item(3, 2)>>

\* demands close to the largest u32: the cores placed in one bin exceed it
BigItems == <<Item(Modulus - 2, 0), Item(2, Modulus - 24),
              Item(Modulus - 24, 0), Item(46, 0)>>

WeightPairs == {<<W06, W04>>, <<W02, W08>>, <<W05, W05>>, <<W10, W00>>,
                <<W05, W04>>}

Args(l, cc, dc, w) ==
    [items |-> l, core_capacity |-> cc, disk_capacity |-> dc,
     core_weight |-> w[1], disk_weight |-> w[2]]

Inputs ==
    {Args(l, 5, 5, w) : l \in Lists(ItemSet, MaxLen), w \in WeightPairs}
    \cup {Args(AnomalyItems, 5, 5, <<W06, W04>>)}
    \cup {Args(ExampleItems, ExampleCore, ExampleDisk, w) :
              w \in {<<W06, W04>>, <<W02, W08>>}}
    \cup {Args(SubSeq(BigItems, 1, k), Modulus - 1, Modulus - 1, <<W05, W05>>) :
              k \in 2..4}

\* --------------------------------------------------------------- state
VARIABLES
    overflow_checks,  \* build setting: integer overflow panics (debug) or wraps
    call,             \* 1 or 2: which call of bin_packing_weighted_ffd
    items, core_capacity, disk_capacity, core_weight, disk_weight,
    pc,               \* "call", "sort", "place", "returned", "printed", "panicked"
    sorted_items,
    next,             \* position of the placement loop in sorted_items
    bins,
    panic,            \* "none", "weights" or "overflow"
    first             \* arguments and result of the first call

vars == <<overflow_checks, call, items, core_capacity, disk_capacity,
          core_weight, disk_weight, pc, sorted_items, next, bins, panic, first>>

args == <<items, core_capacity, disk_capacity, core_weight, disk_weight>>

\* ----------------------------------------------------------------- Bin
Bin_new(cc, dc) == [core_capacity |-> cc, disk_capacity |-> dc, items |-> <<>>]

Front(s) == SubSeq(s, 1, Len(s) - 1)
Last(s) == s[Len(s)]

\* Iterator::sum::<u32>() when overflow wraps
RECURSIVE SumU32(_)
SumU32(s) == IF s = <<>> THEN 0 ELSE (SumU32(Front(s)) + Last(s)) % Modulus

\* whether some addition of Iterator::sum::<u32>() overflows
RECURSIVE SumOverflows(_)
SumOverflows(s) ==
    IF s = <<>> THEN FALSE
    ELSE SumOverflows(Front(s)) \/ SumU32(Front(s)) + Last(s) >= Modulus

Cores(bin) == [i \in DOMAIN bin.items |-> bin.items[i][1]]
Disks(bin) == [i \in DOMAIN bin.items |-> bin.items[i][2]]

\* the subtraction wrapping below zero instead of saturating
wrapping_sub(a, b) == (a - b) % Modulus

saturating_sub(a, b) == IF a >= b THEN a - b ELSE 0

remaining_core_capacity(bin) == saturating_sub(bin.core_capacity, SumU32(Cores(bin)))
remaining_disk_capacity(bin) == saturating_sub(bin.disk_capacity, SumU32(Disks(bin)))

\* a build with overflow checks panics inside remaining_*_capacity
RemainingPanics(bin) ==
    overflow_checks /\ (SumOverflows(Cores(bin)) \/ SumOverflows(Disks(bin)))

\* the fit test without the weights
Fits_Unweighted(bin, cores, disk, cw, dw) ==
    /\ F32Ge(U32ToF32(remaining_core_capacity(bin)), U32ToF32(cores))
    /\ F32Ge(U32ToF32(remaining_disk_capacity(bin)), U32ToF32(disk))

\* the fit test of add_item
Fits(bin, cores, disk, cw, dw) ==
    /\ F32Ge(U32ToF32(remaining_core_capacity(bin)), F32MulU32(cores, cw))
    /\ F32Ge(U32ToF32(remaining_disk_capacity(bin)), F32MulU32(disk, dw))

\* add_item: the bin afterwards and the returned flag
add_item(bin, cores, disk, cw, dw) ==
    IF Fits(bin, cores, disk, cw, dw)
    THEN [bin |-> [bin EXCEPT !.items = Append(@, Item(cores, disk))], ok |-> TRUE]
    ELSE [bin |-> bin, ok |-> FALSE]

\* -------------------------------------------- bin_packing_weighted_ffd
WeightsOk(cw, dw) == F32Lt(F32AbsSubOne(F32Add(cw, dw)), Tolerance)

Score(it, cw, dw) == F32Add(F32MulU32(it[1], cw), F32MulU32(it[2], dw))

RemoveAt(s, i) == SubSeq(s, 1, i - 1) \o SubSeq(s, i + 1, Len(s))

\* the items of s scored by a.1 in both terms of the comparator
RECURSIVE Scored_DiskOnly(_, _, _)
Scored_DiskOnly(s, cw, dw) ==
    IF s = <<>> THEN <<>>
    ELSE Append(Scored_DiskOnly(Front(s), cw, dw),
                <<Last(s), F32Add(F32MulU32(Last(s)[2], cw), F32MulU32(Last(s)[2], dw))>>)

\* the items of s, each paired with its score
RECURSIVE Scored(_, _, _)
Scored(s, cw, dw) ==
    IF s = <<>> THEN <<>>
    ELSE Append(Scored(Front(s), cw, dw), <<Last(s), Score(Last(s), cw, dw)>>)

\* the comparator of sort_unstable_by puts a before b when
\* b_value.partial_cmp(&a_value) is Less; it never fails, no score being NaN
Before(a_value, b_value) == F32Lt(b_value, a_value)

\* every order sort_unstable_by may leave the scored items k in: an element
\* that no other element has to precede comes first, and so on; elements of
\* equal score come in any order
RECURSIVE SortedOrders(_)
SortedOrders(k) ==
    IF k = <<>> THEN {<<>>}
    ELSE LET top == {i \in DOMAIN k : \A j \in DOMAIN k : ~Before(k[j][2], k[i][2])}
         IN UNION {{<<k[i][1]>> \o t : t \in SortedOrders(RemoveAt(k, i))} : i \in top}

sort_unstable_by(s, cw, dw) == SortedOrders(Scored(s, cw, dw))

\* the scan taking the last bin that fits instead of the first
FirstFit_LastFit(bs, j, it, cw, dw) ==
    LET fit == {i \in j..Len(bs) : add_item(bs[i], it[1], it[2], cw, dw).ok}
    IN IF \E i \in j..Len(bs) : RemainingPanics(bs[i]) THEN -1
       ELSE IF fit = {} THEN 0
       ELSE CHOOSE i \in fit : \A k \in fit : k <= i

\* the scan `for bin in &mut bins` from bin j on: the index of the bin that
\* takes the item, 0 when none does, -1 when a remaining_*_capacity panics
RECURSIVE FirstFit(_, _, _, _, _)
FirstFit(bs, j, it, cw, dw) ==
    IF j > Len(bs) THEN 0
    ELSE IF RemainingPanics(bs[j]) THEN -1
    ELSE IF add_item(bs[j], it[1], it[2], cw, dw).ok THEN j
    ELSE FirstFit(bs, j + 1, it, cw, dw)

NoCall == [items |-> <<>>, core_weight |-> F32Zero, disk_weight |-> F32Zero,
           sorted_items |-> <<>>, bins |-> <<>>]

Init ==
    /\ overflow_checks \in BOOLEAN
    /\ call = 1
    /\ \E a \in Inputs :
          /\ items = a.items
          /\ core_capacity = a.core_capacity
          /\ disk_capacity = a.disk_capacity
          /\ core_weight = a.core_weight
          /\ disk_weight = a.disk_weight
    /\ pc = "call"
    /\ sorted_items = <<>>
    /\ next = 1
    /\ bins = <<>>
    /\ panic = "none"
    /\ first = NoCall

\* the call going on to the sort whatever the weights are
AssertWeights_NoAbort ==
    /\ pc = "call"
    /\ pc' = "sort"
    /\ UNCHANGED <<overflow_checks, call, args, sorted_items, next, bins, panic, first>>

\* assert!((core_weight + disk_weight - 1.0).abs() < 1e-6, ...)
AssertWeights ==
    /\ pc = "call"
    /\ IF WeightsOk(core_weight, disk_weight)
       THEN pc' = "sort" /\ panic' = panic
       ELSE pc' = "panicked" /\ panic' = "weights"
    /\ UNCHANGED <<overflow_checks, call, args, sorted_items, next, bins, first>>

\* items.clone(), sort_unstable_by, Vec::new()
SortItems ==
    /\ pc = "sort"
    /\ sorted_items' \in sort_unstable_by(items, core_weight, disk_weight)
    /\ next' = 1
    /\ bins' = <<>>
    /\ pc' = "place"
    /\ UNCHANGED <<overflow_checks, call, args, panic, first>>

\* one iteration of `for (cores, disk) in sorted_items`, the item placed in
\* an existing bin
PlaceInExistingBin ==
    /\ pc = "place"
    /\ next <= Len(sorted_items)
    /\ LET it == sorted_items[next]
           j == FirstFit(bins, 1, it, core_weight, disk_weight)
       IN /\ j > 0
          /\ bins' = [bins EXCEPT
                ![j] = add_item(@, it[1], it[2], core_weight, disk_weight).bin]
    /\ next' = next + 1
    /\ UNCHANGED <<overflow_checks, call, args, pc, sorted_items, panic, first>>

\* one iteration, no existing bin took the item: Bin::new, add_item (its
\* result is not looked at), bins.push
PlaceInNewBin ==
    /\ pc = "place"
    /\ next <= Len(sorted_items)
    /\ LET it == sorted_items[next]
           j == FirstFit(bins, 1, it, core_weight, disk_weight)
           new_bin == Bin_new(core_capacity, disk_capacity)
       IN /\ j = 0
          /\ bins' = Append(bins,
                add_item(new_bin, it[1], it[2], core_weight, disk_weight).bin)
    /\ next' = next + 1
    /\ UNCHANGED <<overflow_checks, call, args, pc, sorted_items, panic, first>>

\* one iteration, the sum of a bin's demands overflows in a checked build
PlacePanics ==
    /\ pc = "place"
    /\ next <= Len(sorted_items)
    /\ FirstFit(bins, 1, sorted_items[next], core_weight, disk_weight) = -1
    /\ pc' = "panicked"
    /\ panic' = "overflow"
    /\ UNCHANGED <<overflow_checks, call, args, sorted_items, next, bins, first>>

\* the loop is over: `bins` is returned
Return ==
    /\ pc = "place"
    /\ next > Len(sorted_items)
    /\ pc' = "returned"
    /\ UNCHANGED <<overflow_checks, call, args, sorted_items, next, bins, panic, first>>

\* main prints every bin with its remaining capacities
PrintBins ==
    /\ pc = "returned"
    /\ IF \E i \in DOMAIN bins : RemainingPanics(bins[i])
       THEN pc' = "panicked" /\ panic' = "overflow"
       ELSE pc' = "printed" /\ panic' = panic
    /\ UNCHANGED <<overflow_checks, call, args, sorted_items, next, bins, first>>

\* main calls bin_packing_weighted_ffd a second time; the first result stays
\* alive.  The second call differs from the first in its weights, as in main,
\* or in its items: more items are added to the first call's items.
SecondCall ==
    /\ pc = "printed"
    /\ call = 1
    /\ first' = [items |-> items, core_weight |-> core_weight,
                 disk_weight |-> disk_weight, sorted_items |-> sorted_items,
                 bins |-> bins]
    /\ call' = 2
    /\ \E extra \in Lists(ItemSet, MaxExtra), w \in WeightPairs :
          /\ extra = <<>> \/ w = <<core_weight, disk_weight>>
          /\ items' = items \o extra
          /\ core_weight' = w[1]
          /\ disk_weight' = w[2]
    /\ pc' = "call"
    /\ sorted_items' = <<>>
    /\ next' = 1
    /\ bins' = <<>>
    /\ UNCHANGED <<overflow_checks, core_capacity, disk_capacity, panic>>

Next ==
    \/ AssertWeights
    \/ SortItems
    \/ PlaceInExistingBin
    \/ PlaceInNewBin
    \/ PlacePanics
    \/ Return
    \/ PrintBins
    \/ SecondCall

Spec == Init /\ [][Next]_vars

\* ---------------------------------------------------------- properties
\* the sum of a sequence of demands as a mathematical integer
RECURSIVE TrueSum(_)
TrueSum(s) == IF s = <<>> THEN 0 ELSE TrueSum(Front(s)) + Last(s)

RECURSIVE Flatten(_)
Flatten(bs) == IF bs = <<>> THEN <<>> ELSE Flatten(Front(bs)) \o Last(bs).items

Count(s, x) == Cardinality({i \in DOMAIN s : s[i] = x})

Range(s) == {s[i] : i \in DOMAIN s}

Returned == pc \in {"returned", "printed"}

\* the item passes the fit test of a bin just created
FitsEmptyBin(it) ==
    Fits(Bin_new(core_capacity, disk_capacity), it[1], it[2], core_weight, disk_weight)

ItemsOf(bs) == [i \in DOMAIN bs |-> bs[i].items]

\* C1: on return, the items over all bins are the input items, as multisets.
C1_Conservation ==
    Returned => \A x \in Range(items) \cup Range(Flatten(bins)) :
                    Count(Flatten(bins), x) = Count(items, x)

\* C2: a call whose input holds an item that fails the fit test of an empty
\* bin does not return normally.
C2_UnplaceableSurfaced ==
    (\E i \in DOMAIN items : ~FitsEmptyBin(items[i])) => ~Returned

\* C3: weights that do not sum to 1.0 within the tolerance make the call
\* panic at the assertion, before anything is sorted, any bin is created or
\* any item is placed; weights that do never make the assertion fail.  The
\* weights (0.5, 0.4) are of the first kind.
C3_InvalidWeightsFailFast ==
    /\ (pc # "call" /\ ~WeightsOk(core_weight, disk_weight))
          => /\ pc = "panicked" /\ panic = "weights"
             /\ sorted_items = <<>> /\ bins = <<>> /\ next = 1
    /\ (pc # "call" /\ core_weight = W05 /\ disk_weight = W04) => panic = "weights"
    /\ WeightsOk(core_weight, disk_weight) => panic # "weights"

C3_Witness ==
    /\ call = 2 /\ pc = "panicked" /\ panic = "weights"
    /\ first.bins # <<>>

\* C4: with both weights in (0, 1], in every bin the sum of cores times
\* core_weight is at most core_capacity, and the sum of disk times
\* disk_weight is at most disk_capacity.
C4_WeightedCapacityBound ==
    (core_weight[1] # 0 /\ disk_weight[1] # 0
       /\ F32Ge(W10, core_weight) /\ F32Ge(W10, disk_weight))
    => \A i \in DOMAIN bins :
          /\ F32Ge(U32ToF32(bins[i].core_capacity),
                   F32MulU32(TrueSum(Cores(bins[i])), core_weight))
          /\ F32Ge(U32ToF32(bins[i].disk_capacity),
                   F32MulU32(TrueSum(Disks(bins[i])), disk_weight))

\* C5: in every bin the sum of cores is at most core_capacity and the sum of
\* disk is at most disk_capacity.
C5_NominalCapacity ==
    \A i \in DOMAIN bins :
        /\ TrueSum(Cores(bins[i])) <= bins[i].core_capacity
        /\ TrueSum(Disks(bins[i])) <= bins[i].disk_capacity

\* C5, amended: in every bin, the demands placed before an item whose
\* weighted demand is not zero sum, as remaining_*_capacity computes the sum,
\* to less than the capacity in that dimension; the sum with that item may
\* exceed the capacity.
C5_NominalBeforePlacement ==
    \A i \in DOMAIN bins : \A k \in DOMAIN bins[i].items :
        LET before == [bins[i] EXCEPT !.items = SubSeq(@, 1, k - 1)]
            it == bins[i].items[k]
        IN /\ F32MulU32(it[1], core_weight) # F32Zero
                => SumU32(Cores(before)) < bins[i].core_capacity
           /\ F32MulU32(it[2], disk_weight) # F32Zero
                => SumU32(Disks(before)) < bins[i].disk_capacity

C5_Witness ==
    \E i \in DOMAIN bins :
        /\ Len(bins[i].items) >= 2
        /\ TrueSum(Cores(bins[i])) > bins[i].core_capacity
        /\ TrueSum(Cores(bins[i])) < Modulus

\* the second call was made with the first call's weights and with items added
SameWeightsMoreItems ==
    /\ call = 2
    /\ core_weight = first.core_weight /\ disk_weight = first.disk_weight
    /\ Len(items) > Len(first.items)

Added == SubSeq(items, Len(first.items) + 1, Len(items))

\* C6: when the second call packs the first call's items plus items that
\* each fit an empty bin, with the same weights, it returns at least as many
\* bins as the first call.
C6_Monotone ==
    (Returned /\ SameWeightsMoreItems /\ \A x \in Range(Added) : FitsEmptyBin(x))
    => Len(bins) >= Len(first.bins)

\* every added item scores below every item of the first call, and no two
\* different items of the first call have the same score
AddedSortLast ==
    /\ \A x \in Range(Added), a \in Range(first.items) :
          F32Lt(Score(x, core_weight, disk_weight), Score(a, core_weight, disk_weight))
    /\ \A a \in Range(first.items), b \in Range(first.items) :
          a # b => Score(a, core_weight, disk_weight) # Score(b, core_weight, disk_weight)

\* C6, amended: the second call returns at least as many bins as the first
\* when, in addition, the added items all score below the first call's items
\* and the first call's items have no ties between different items.
C6_MonotoneWhenAddedSortLast ==
    (Returned /\ SameWeightsMoreItems /\ AddedSortLast) => Len(bins) >= Len(first.bins)

C6_Witness ==
    /\ Returned /\ SameWeightsMoreItems /\ AddedSortLast
    /\ \A x \in Range(Added) : FitsEmptyBin(x)
    /\ Len(first.items) >= 2
    /\ Len(bins) > Len(first.bins)

\* both calls of main have returned: the example items with capacities
\* (10, 200), first with weights (0.6, 0.4), then with weights (0.2, 0.8)
ExampleDone ==
    /\ call = 2 /\ Returned
    /\ items = ExampleItems /\ first.items = ExampleItems
    /\ core_capacity = ExampleCore /\ disk_capacity = ExampleDisk
    /\ first.core_weight = W06 /\ first.disk_weight = W04
    /\ core_weight = W02 /\ disk_weight = W08

\* C8: on the example, the two weight settings give different sorted orders
\* and different bins.
C8_ExampleDiffers ==
    ExampleDone => (sorted_items # first.sorted_items /\ bins # first.bins)

\* C8, amended: on the example, the two weight settings give the same sorted
\* order and the same number of bins, four, and different assignments of the
\* items to the bins.
C8_ExampleSameOrderOtherBins ==
    ExampleDone =>
        /\ sorted_items = first.sorted_items
        /\ sorted_items = <<Item(6, 150), Item(5, 120), Item(4, 100), Item(4, 90),
                            Item(3, 80), Item(2, 60), Item(2, 50), Item(1, 30)>>
        /\ ItemsOf(first.bins) = << <<Item(6, 150), Item(5, 120)>>,
                                    <<Item(4, 100), Item(4, 90)>>,
                                    <<Item(3, 80), Item(2, 60), Item(2, 50)>>,
                                    <<Item(1, 30)>> >>
        /\ ItemsOf(bins) = << <<Item(6, 150), Item(2, 60)>>,
                              <<Item(5, 120), Item(4, 100)>>,
                              <<Item(4, 90), Item(3, 80), Item(1, 30)>>,
                              <<Item(2, 50)>> >>

C8_Witness == ExampleDone /\ pc = "printed"

Min(S) == CHOOSE x \in S : \A y \in S : x <= y

\* C9: a step of the placement loop takes the next item of sorted_items and
\* appends it to the first bin whose fit test holds, leaving every other bin
\* as it is; when no bin's fit test holds, exactly one bin is appended to the
\* list, holding at most that item, and the bins before it stay as they are.
C9_FirstFit ==
    [][(pc = "place" /\ bins' # bins) =>
        LET it == sorted_items[next]
            fit == {j \in DOMAIN bins :
                      Fits(bins[j], it[1], it[2], core_weight, disk_weight)}
        IN /\ next' = next + 1 /\ sorted_items' = sorted_items
           /\ IF fit # {}
              THEN bins' = [bins EXCEPT ![Min(fit)].items = Append(@, it)]
              ELSE /\ Len(bins') = Len(bins) + 1
                   /\ SubSeq(bins', 1, Len(bins)) = bins
                   /\ bins'[Len(bins')].items \in {<<>>, <<it>>}
                   /\ bins'[Len(bins')].core_capacity = core_capacity
                   /\ bins'[Len(bins')].disk_capacity = disk_capacity]_vars

\* the item placed last went to an earlier bin, not to the last, non-empty bin
C9_Witness ==
    /\ pc = "place" /\ next > 1 /\ Len(bins) >= 2
    /\ bins[Len(bins)].items # <<>>
    /\ Last(bins[Len(bins)].items) # sorted_items[next - 1]
    /\ \E j \in 1..(Len(bins) - 1) :
          /\ Len(bins[j].items) >= 2
          /\ Last(bins[j].items) = sorted_items[next - 1]

Max(a, b) == IF a >= b THEN a ELSE b

\* C10: for every bin, remaining_core_capacity is max(0, core_capacity - S),
\* S the sum of the cores of the bin's items as a mathematical integer, and
\* the computation does not panic; likewise remaining_disk_capacity.
C10_RemainingClamped ==
    \A i \in DOMAIN bins :
        /\ ~RemainingPanics(bins[i])
        /\ remaining_core_capacity(bins[i])
              = Max(0, bins[i].core_capacity - TrueSum(Cores(bins[i])))
        /\ remaining_disk_capacity(bins[i])
              = Max(0, bins[i].disk_capacity - TrueSum(Disks(bins[i])))

====
